---- MODULE Spec2Model ----
(***************************************************************************)
(* Model of the clustering decision engine of amazon_review_tool:          *)
(* core/clustering.py (K scan, cluster fitting, validation metrics),       *)
(* core/representatives.py, core/robustness.py, core/plot_k.py and the K   *)
(* step of the pipeline in ui/app.py.                                      *)
(*                                                                         *)
(* Each public function is one action.  A call draws its arguments from    *)
(* bounded sets, draws the results of the scikit-learn / numpy calls it    *)
(* makes from the outcomes those libraries can produce, and stores what    *)
(* the function returns (or that it raised) in `res`.  Fields of `res`     *)
(* other than `raised`, `error` and `value` are an audit trail of the      *)
(* library calls the function made.                                        *)
(***************************************************************************)
EXTENDS Integers, Sequences, FiniteSets, TLC

VARIABLES op, args, res, first, memo, rng, app, files

vars == <<op, args, res, first, memo, rng, app, files>>

----------------------------------------------------------------------------
(* Bounds of the model. *)

NRows == 3          \* rows of the embedding matrix
MaxK == 3           \* largest cluster count / range end a caller passes
Precision == 4      \* significand bits of a floating-point score
MaxJobs == 3        \* worker threads the application starts in a session
MaxTexts == 3       \* texts in a list handed to the embedder
MaxCalls == 3       \* encode calls on one cache directory

----------------------------------------------------------------------------
(* Python values. *)

\* float(x); scores are abstract numbers
Float(x) == [t |-> "float", v |-> x]
\* None where a number is expected
None == [t |-> "None", v |-> 0]
\* None where a string, an array or a dict is expected
NoneObj == [t |-> "None", v |-> <<>>]
\* a str, held as its sequence of characters
Str(s) == [t |-> "str", v |-> s]
\* a dict
Dict(m) == [t |-> "dict", v |-> m]
\* a numpy array, rows 1..n
Array(a) == [t |-> "array", v |-> a]

IsNone(x) == x.t = "None"

EmptyMap == <<>>

\* d[k] = v on a dict held as a function
Put(d, k, v) == [x \in (DOMAIN d) \cup {k} |-> IF x = k THEN v ELSE d[x]]

\* d.get(k, default)
Get(d, k, default) == IF k \in DOMAIN d THEN d[k] ELSE default

Range(f) == {f[i] : i \in DOMAIN f}

Min(a, b) == IF a <= b THEN a ELSE b

\* len(set(labels))
NumLabels(labels) == Cardinality(Range(labels))

----------------------------------------------------------------------------
(* Strings: str.lower() and str.strip() act on the characters. *)

UpperAlpha == <<"A","B","C","D","E","F","G","H","I","J","K","L","M",
                "N","O","P","Q","R","S","T","U","V","W","X","Y","Z">>
LowerAlpha == <<"a","b","c","d","e","f","g","h","i","j","k","l","m",
                "n","o","p","q","r","s","t","u","v","w","x","y","z">>

LowerChar(c) ==
    IF \E i \in DOMAIN UpperAlpha : UpperAlpha[i] = c
    THEN LowerAlpha[CHOOSE i \in DOMAIN UpperAlpha : UpperAlpha[i] = c]
    ELSE c

\* s.lower()
Lower(s) == [i \in 1..Len(s) |-> LowerChar(s[i])]

RECURSIVE LStrip(_)
LStrip(s) == IF s # <<>> /\ Head(s) = " " THEN LStrip(Tail(s)) ELSE s

RECURSIVE RStrip(_)
RStrip(s) ==
    IF s # <<>> /\ s[Len(s)] = " " THEN RStrip(SubSeq(s, 1, Len(s) - 1)) ELSE s

\* s.strip()
Strip(s) == RStrip(LStrip(s))

S_kmeans == <<"k","m","e","a","n","s">>
S_KMeans == <<"K","M","e","a","n","s">>
S_agglomerative == <<"a","g","g","l","o","m","e","r","a","t","i","v","e">>
S_Agglomerative == <<"A","g","g","l","o","m","e","r","a","t","i","v","e">>
S_dbscan == <<"d","b","s","c","a","n">>
S_DBSCAN == <<"D","B","S","C","A","N">>
S_ward == <<"w","a","r","d">>
S_Ward == <<"W","a","r","d">>
S_average == <<"a","v","e","r","a","g","e">>
S_euclidean == <<"e","u","c","l","i","d","e","a","n">>
S_cosine == <<"c","o","s","i","n","e">>
S_Cosine == <<"C","o","s","i","n","e">>

----------------------------------------------------------------------------
(* Inputs. *)

\* an N x 1 embedding matrix: constant data, and pairwise distinct rows
Embeddings == {[i \in 1..NRows |-> 0], [i \in 1..NRows |-> i]}

Seeds == {42}

\* values a score or an inertia can take
ScoreValues == {0, 1}

\* an optional int argument that is given
Given(n) == [t |-> "int", v |-> n]

\* what a raising call leaves: no value
Raised(e) == [raised |-> TRUE, error |-> e]

----------------------------------------------------------------------------
(* The libraries (scikit-learn, numpy), by the outcomes a call can have.   *)

\* KMeans(n_clusters=k, ...).fit_predict(emb): labels in 0..k-1 and an
\* inertia, or an error when k is not in 1..n_samples
KMeansFits(emb, k) ==
    IF k < 1 \/ k > Len(emb)
    THEN {[raised |-> TRUE, labels |-> <<>>, inertia |-> 0]}
    ELSE {[raised |-> FALSE, labels |-> l, inertia |-> w] :
            l \in [1..Len(emb) -> 0..(k - 1)], w \in ScoreValues}

ValidLinkages == {S_ward, S_average}
ValidMetrics == {S_euclidean, S_cosine}

\* AgglomerativeClustering(n_clusters=k, linkage, metric).fit_predict(emb):
\* exactly k clusters 0..k-1, or an error on parameters it rejects
AgglomerativeFits(emb, k, linkage, metric) ==
    IF \/ k < 1 \/ k > Len(emb)
       \/ linkage \notin ValidLinkages \/ metric \notin ValidMetrics
       \/ (linkage = S_ward /\ metric # S_euclidean)
    THEN {[raised |-> TRUE, labels |-> <<>>]}
    ELSE {[raised |-> FALSE, labels |-> l] :
            l \in {f \in [1..Len(emb) -> 0..(k - 1)] : Range(f) = 0..(k - 1)}}

\* silhouette_score / calinski_harabasz_score / davies_bouldin_score:
\* a score, or an exception
ScoreOutcomes ==
    {[raised |-> TRUE, v |-> 0]} \cup {[raised |-> FALSE, v |-> x] : x \in ScoreValues}

\* np.random.default_rng(seed).choice(n, size, replace=False): size distinct
\* row numbers, in some order
Choice(n, size) ==
    {s \in [1..size -> 1..n] : \A i, j \in 1..size : i # j => s[i] # s[j]}

\* a[idx] for an index array idx
Take(a, idx) == [j \in 1..Len(idx) |-> a[idx[j]]]

----------------------------------------------------------------------------
(* KScanResult, scan_k, scan_k_agglomerative. *)

\* the dataclass: k_to_ch defaults to None; there is no fourth field
KScanResult(k_to_inertia, k_to_silhouette, k_to_ch) ==
    [k_to_inertia |-> Dict(k_to_inertia),
     k_to_silhouette |-> Dict(k_to_silhouette),
     k_to_ch |-> k_to_ch]

\* one pass of scan_k's loop body at K = k: what it stores, for every outcome
\* of the fit and of the silhouette call (neither call is guarded by a try)
ScanKEntries(emb, k, seed) ==
    UNION {
        IF fit.raised THEN {Raised("ValueError")}
        ELSE IF NumLabels(fit.labels) > 1
        THEN {IF s.raised THEN Raised("ValueError")
              ELSE [raised |-> FALSE,
                    inertia |-> Float(fit.inertia),
                    sil |-> Float(s.v),
                    nlabels |-> NumLabels(fit.labels),
                    invoked |-> {"silhouette"}] : s \in ScoreOutcomes}
        ELSE {[raised |-> FALSE,
               inertia |-> Float(fit.inertia),
               sil |-> Float(-1),
               nlabels |-> NumLabels(fit.labels),
               invoked |-> {}]}
        : fit \in KMeansFits(emb, k)}

\* the dicts after the pass at K = k, from the dicts before it
ScanKStore(acc, k, e) ==
    IF acc.raised THEN acc
    ELSE IF e.raised THEN e
    ELSE [raised |-> FALSE,
          k_to_inertia |-> Put(acc.k_to_inertia, k, e.inertia),
          k_to_sil |-> Put(acc.k_to_sil, k, e.sil),
          nlabels |-> Put(acc.nlabels, k, e.nlabels),
          invoked |-> Put(acc.invoked, k, e.invoked)]

\* for k in range(k, k_max + 1)
RECURSIVE ScanKLoop(_, _, _, _, _)
ScanKLoop(emb, k, k_max, seed, accs) ==
    IF k > k_max THEN accs
    ELSE LET entries == ScanKEntries(emb, k, seed)
         IN ScanKLoop(emb, k + 1, k_max, seed,
                      {ScanKStore(a, k, e) : a \in accs, e \in entries})

\* scan_k(embeddings, k_min, k_max, random_state): every result it can give
scan_k(emb, k_min, k_max, seed) ==
    LET start == [raised |-> FALSE, k_to_inertia |-> EmptyMap, k_to_sil |-> EmptyMap,
                  nlabels |-> EmptyMap, invoked |-> EmptyMap]
    IN {IF a.raised THEN a
        ELSE [raised |-> FALSE,
              value |-> KScanResult(a.k_to_inertia, a.k_to_sil, NoneObj),
              nlabels |-> a.nlabels,
              invoked |-> a.invoked,
              built |-> {},
              sil_metrics |-> {}]
        : a \in ScanKLoop(emb, k_min, k_max, seed, {start})}

\* (the ward test without lower())
ScanAggMetricCaseSensitive(linkage, metric) ==
    IF linkage = S_ward THEN S_euclidean ELSE metric

\* the metric scan_k_agglomerative works with: ward only supports euclidean
ScanAggMetric(linkage, metric) ==
    IF Lower(linkage) = S_ward THEN S_euclidean ELSE metric

\* the sample scan_k_agglomerative evaluates on: None, or row numbers
ScanAggSamples(n, sample_size) ==
    IF ~IsNone(sample_size) /\ sample_size.v > 0 /\ n > sample_size.v
    THEN {Array(s) : s \in Choice(n, sample_size.v)}
    ELSE {NoneObj}

\* one pass of scan_k_agglomerative's loop body at K = k
ScanAggEntries(emb, k, linkage, metric, idx) ==
    UNION {
        IF fit.raised THEN {Raised("ValueError")}
        ELSE LET labels_use == IF IsNone(idx) THEN fit.labels ELSE Take(fit.labels, idx.v)
             IN IF NumLabels(labels_use) > 1
                THEN {[raised |-> FALSE,
                       sil |-> IF s.raised THEN None ELSE Float(s.v),
                       ch |-> IF c.raised THEN None ELSE Float(c.v),
                       nlabels |-> NumLabels(fit.labels),
                       invoked |-> {"silhouette", "calinski_harabasz"}]
                      : s \in ScoreOutcomes, c \in ScoreOutcomes}
                ELSE {[raised |-> FALSE, sil |-> None, ch |-> None,
                       nlabels |-> NumLabels(fit.labels),
                       invoked |-> {}]}
        : fit \in AgglomerativeFits(emb, k, linkage, metric)}

ScanAggStore(acc, k, e, linkage, metric) ==
    IF acc.raised THEN acc
    ELSE IF e.raised
    THEN e @@ [built |-> acc.built \cup {[linkage |-> linkage, metric |-> metric]},
               sil_metrics |-> acc.sil_metrics]
    ELSE [raised |-> FALSE,
          k_to_sil |-> Put(acc.k_to_sil, k, e.sil),
          k_to_ch |-> Put(acc.k_to_ch, k, e.ch),
          nlabels |-> Put(acc.nlabels, k, e.nlabels),
          invoked |-> Put(acc.invoked, k, e.invoked),
          built |-> acc.built \cup {[linkage |-> linkage, metric |-> metric]},
          sil_metrics |-> acc.sil_metrics \cup
                            (IF "silhouette" \in e.invoked THEN {metric} ELSE {})]

RECURSIVE ScanAggLoop(_, _, _, _, _, _, _)
ScanAggLoop(emb, k, k_max, linkage, metric, idx, accs) ==
    IF k > k_max THEN accs
    ELSE LET entries == ScanAggEntries(emb, k, linkage, metric, idx)
         IN ScanAggLoop(emb, k + 1, k_max, linkage, metric, idx,
                        {ScanAggStore(a, k, e, linkage, metric) : a \in accs, e \in entries})

\* scan_k_agglomerative(embeddings, k_min, k_max, linkage, metric,
\* sample_size, random_state): every result it can give
scan_k_agglomerative(emb, k_min, k_max, linkage, metric0, sample_size, seed) ==
    LET metric == ScanAggMetric(linkage, metric0)
        start == [raised |-> FALSE, k_to_sil |-> EmptyMap, k_to_ch |-> EmptyMap,
                  nlabels |-> EmptyMap, invoked |-> EmptyMap,
                  built |-> {}, sil_metrics |-> {}]
    IN UNION {
         {IF a.raised THEN a
          ELSE [raised |-> FALSE,
                value |-> KScanResult(EmptyMap, a.k_to_sil, Dict(a.k_to_ch)),
                nlabels |-> a.nlabels,
                invoked |-> a.invoked,
                built |-> a.built,
                sil_metrics |-> a.sil_metrics]
          : a \in ScanAggLoop(emb, k_min, k_max, linkage, metric, idx, {start})}
         : idx \in ScanAggSamples(Len(emb), sample_size)}

----------------------------------------------------------------------------
(* Cluster centers. *)

RECURSIVE SumOver(_, _)
SumOver(emb, idx) ==
    IF idx = {} THEN 0
    ELSE LET i == CHOOSE x \in idx : TRUE IN emb[i] + SumOver(emb, idx \ {i})

\* the exact quotient a / b
Quot(a, b) == [num |-> a, den |-> b]

\* np.mean(embeddings[idx], axis=0)
Mean(emb, idx) == Quot(SumOver(emb, idx), Cardinality(idx))

\* np.where(labels == c)[0]
Members(labels, c) == {i \in DOMAIN labels : labels[i] = c}

\* (the noise label given a center like any other label)
compute_cluster_centers_keep_noise(emb, labels, noise_label) ==
    Dict([c \in Range(labels) |-> Mean(emb, Members(labels, c))])

\* compute_cluster_centers(embeddings, labels, noise_label): a dict with the
\* mean of the members of every label except noise_label (None: no exception)
compute_cluster_centers(emb, labels, noise_label) ==
    Dict([c \in {x \in Range(labels) : IsNone(noise_label) \/ x # noise_label.v}
            |-> Mean(emb, Members(labels, c))])

\* km.cluster_centers_: a dense array with one row per cluster 0..k-1
NativeCenters(emb, labels, k) ==
    Array([c \in 0..(k - 1) |->
             IF Members(labels, c) = {} THEN Quot(emb[1], 1)
             ELSE Mean(emb, Members(labels, c))])

----------------------------------------------------------------------------
(* The clustering library as a function of its inputs and seed.  `memo`    *)
(* holds the graph of that function as far as it has been called: a call   *)
(* with a key already in memo returns what it returned before.  A KMeans   *)
(* given no random_state draws its seed from the global generator, whose   *)
(* position is `rng`.                                                      *)

Consult(key, outcomes) ==
    IF \E m \in memo : m.key = key
    THEN {m.out : m \in {x \in memo : x.key = key}}
    ELSE outcomes

\* DBSCAN(eps, min_samples, metric).fit_predict(emb): -1 for noise, clusters
\* numbered from 0; an error on a metric it does not know
DBSCANFits(emb, metric) ==
    IF metric \notin ValidMetrics
    THEN {[raised |-> TRUE, labels |-> <<>>]}
    ELSE {[raised |-> FALSE, labels |-> l] :
            l \in {f \in [1..Len(emb) -> -1..(Len(emb) - 1)] :
                     \A c \in Range(f) : c > 0 => (c - 1) \in Range(f)}}

\* a KMeans fit as its callers read it: labels_ and cluster_centers_
KMeansRunFits(emb, k) ==
    {IF f.raised THEN [raised |-> TRUE]
     ELSE [raised |-> FALSE, labels |-> f.labels,
           centers |-> NativeCenters(emb, f.labels, k)]
     : f \in KMeansFits(emb, k)}

\* (KMeans built without random_state)
KMeansSeedUnset(random_state) == None

\* the random_state handed to KMeans
KMeansSeed(random_state) == Given(random_state)

\* one KMeans fit: its outcome, what the library now remembers, and how many
\* draws it took from the global generator
KMeansCall(emb, k, random_state) ==
    LET key == [fn |-> "KMeans", emb |-> emb, k |-> k,
                seed |-> IF IsNone(random_state) THEN [t |-> "global", v |-> rng]
                         ELSE random_state]
    IN {[out |-> o, lib |-> {[key |-> key, out |-> o]},
         draws |-> IF IsNone(random_state) THEN 1 ELSE 0]
        : o \in Consult(key, KMeansRunFits(emb, k))}

\* _build_agglomerative(n_clusters, linkage, metric).fit_predict(emb)
AgglomerativeCall(emb, k, linkage, metric) ==
    LET key == [fn |-> "AgglomerativeClustering", emb |-> emb, k |-> k,
                linkage |-> linkage, metric |-> metric]
    IN {[out |-> o, lib |-> {[key |-> key, out |-> o]}, draws |-> 0]
        : o \in Consult(key, AgglomerativeFits(emb, k, linkage, metric))}

DBSCANCall(emb, metric) ==
    LET key == [fn |-> "DBSCAN", emb |-> emb, metric |-> metric]
    IN {[out |-> o, lib |-> {[key |-> key, out |-> o]}, draws |-> 0]
        : o \in Consult(key, DBSCANFits(emb, metric))}

----------------------------------------------------------------------------
(* fit_kmeans and run_clustering. *)

\* fit_kmeans(embeddings, k, random_state) -> (labels, centers)
fit_kmeans(emb, k, random_state) ==
    {[res |-> IF c.out.raised THEN Raised("InvalidParameterError")
              ELSE [raised |-> FALSE, labels |-> c.out.labels, centers |-> c.out.centers],
      lib |-> c.lib, draws |-> c.draws]
     : c \in KMeansCall(emb, k, KMeansSeed(random_state))}

\* x or y or ..., on ints: the first that is given and not 0
Falsy(params, key) == key \notin DOMAIN params \/ params[key] = 0

DefaultK == 5

\* int(params.get("n_clusters") or params.get("k") or 5)
ParamK(params) ==
    IF ~Falsy(params, "n_clusters") THEN params["n_clusters"]
    ELSE IF ~Falsy(params, "k") THEN params["k"]
    ELSE DefaultK

\* (method or "KMeans").strip()
MethodKey(method) ==
    Strip(IF IsNone(method) \/ method.v = <<>> THEN S_KMeans ELSE method.v)

\* method_key.lower()
MethodNorm(method) == Lower(MethodKey(method))

\* the agglomerative branch's linkage and metric: lower-cased, and euclidean
\* under ward
AggLinkage(params) == Lower(Get(params, "linkage", S_ward))

AggMetric(params) ==
    IF AggLinkage(params) = S_ward THEN S_euclidean
    ELSE Lower(Get(params, "metric", S_euclidean))

\* the noise label run_clustering reports and counts with
NoiseLabel(params) == Get(params, "noise_label", -1)

\* time.time() - start: what the clock gives
Runtimes == {0, 1}

\* meta.update({...}): the runtime, and the counts taken from labels after the fit
MetaCounts(labels, params, runtime) ==
    LET noise_label == NoiseLabel(params)
        noise_count == Cardinality(Members(labels, noise_label))
        total == Len(labels)
    IN [runtime_seconds |-> runtime,
        n_clusters |-> Cardinality(Range(labels) \ {noise_label}),
        noise_label |-> noise_label,
        noise_count |-> noise_count,
        noise_ratio |-> IF total > 0 THEN Quot(noise_count, total) ELSE Quot(0, 1)]

\* what run_clustering returns after a fit that did not raise
RunReturn(labels, meta, params, built, runtime) ==
    [raised |-> FALSE, labels |-> labels,
     meta |-> MetaCounts(labels, params, runtime) @@ meta,
     built |-> built]

RunKMeans(emb, params, random_state) ==
    LET k == ParamK(params)
    IN {[res |-> IF c.out.raised THEN Raised("InvalidParameterError")
                 ELSE RunReturn(c.out.labels,
                                [method |-> S_KMeans,
                                 method_params |-> [n_clusters |-> k],
                                 centers |-> c.out.centers],
                                params, {}, t),
         lib |-> c.lib, draws |-> c.draws]
        : c \in KMeansCall(emb, k, KMeansSeed(random_state)), t \in Runtimes}

RunAgglomerative(emb, params) ==
    LET k == ParamK(params)
        linkage == AggLinkage(params)
        metric == AggMetric(params)
    IN {[res |-> IF c.out.raised
                 THEN Raised("InvalidParameterError")
                        @@ [built |-> {[linkage |-> linkage, metric |-> metric]}]
                 ELSE RunReturn(c.out.labels,
                                [method |-> S_Agglomerative,
                                 method_params |-> [n_clusters |-> k, linkage |-> linkage,
                                                    metric |-> metric],
                                 centers |-> compute_cluster_centers(emb, c.out.labels, None)],
                                params, {[linkage |-> linkage, metric |-> metric]}, t),
         lib |-> c.lib, draws |-> c.draws]
        : c \in AgglomerativeCall(emb, k, linkage, metric), t \in Runtimes}

RunDBSCAN(emb, params) ==
    LET metric == Get(params, "metric", S_euclidean)
    IN {[res |-> IF c.out.raised THEN Raised("InvalidParameterError")
                 ELSE RunReturn(c.out.labels,
                                [method |-> S_DBSCAN,
                                 method_params |-> [metric |-> metric],
                                 centers |-> compute_cluster_centers(emb, c.out.labels, Given(-1))],
                                params, {}, t),
         lib |-> c.lib, draws |-> c.draws]
        : c \in DBSCANCall(emb, metric), t \in Runtimes}

\* (an unknown name falling through to the KMeans branch)
run_clustering_default_branch(emb, method, params, random_state) ==
    LET method_norm == MethodNorm(method)
    IN IF method_norm = S_agglomerative THEN RunAgglomerative(emb, params)
       ELSE IF method_norm = S_dbscan THEN RunDBSCAN(emb, params)
       ELSE RunKMeans(emb, params, random_state)

\* run_clustering(embeddings, method, params, random_state) -> (labels, meta)
run_clustering(emb, method, params, random_state) ==
    LET method_norm == MethodNorm(method)
    IN IF method_norm = S_kmeans THEN RunKMeans(emb, params, random_state)
       ELSE IF method_norm = S_agglomerative THEN RunAgglomerative(emb, params)
       ELSE IF method_norm = S_dbscan THEN RunDBSCAN(emb, params)
       ELSE {[res |-> Raised("ValueError: Unsupported clustering method"), lib |-> {}, draws |-> 0]}

----------------------------------------------------------------------------
(* compute_cluster_metrics and _maybe_sample.  A sub-matrix of embeddings   *)
(* (X, X_eval) is held as the sequence of the row numbers it is made of;   *)
(* its labels (y, y_eval) are the labels of those rows.                    *)

RECURSIVE MaskRows(_, _, _)
MaskRows(labels, noise_label, i) ==
    IF i > Len(labels) THEN <<>>
    ELSE (IF labels[i] # noise_label THEN <<i>> ELSE <<>>)
            \o MaskRows(labels, noise_label, i + 1)

\* the rows kept by mask = labels != noise_label
Kept(labels, noise_label) == MaskRows(labels, noise_label, 1)

\* (sampling with replacement)
MaybeSampleWithReplacement(X, sample_size) ==
    IF IsNone(sample_size) \/ sample_size.v <= 0 THEN {X}
    ELSE IF Len(X) <= sample_size.v THEN {X}
    ELSE {Take(X, idx) : idx \in [1..sample_size.v -> 1..Len(X)]}

\* _maybe_sample(X, y, sample_size, random_state): every sample it can draw
MaybeSample(X, sample_size) ==
    IF IsNone(sample_size) \/ sample_size.v <= 0 THEN {X}
    ELSE IF Len(X) <= sample_size.v THEN {X}
    ELSE {Take(X, idx) : idx \in Choice(Len(X), sample_size.v)}

NoteKey(name) ==
    CASE name = "silhouette" -> "silhouette_note"
      [] name = "calinski_harabasz" -> "calinski_harabasz_note"
      [] name = "davies_bouldin" -> "davies_bouldin_note"

\* try: out[name] = float(score) / except: out[name] = None, out[name_note] = str(e)
Guarded(name, outcome) ==
    IF outcome.raised
    THEN (name :> None) @@ (NoteKey(name) :> "metric failed")
    ELSE (name :> Float(outcome.v))

\* (one try around the three calculators: the first failure ends them all)
MetricEntriesOneTry(s, c, d, compute_db) ==
    IF s.raised THEN Guarded("silhouette", s)
    ELSE IF c.raised THEN Guarded("calinski_harabasz", c) @@ Guarded("silhouette", s)
    ELSE (IF compute_db THEN Guarded("davies_bouldin", d) ELSE EmptyMap)
            @@ Guarded("calinski_harabasz", c) @@ Guarded("silhouette", s)

\* the three guarded blocks, lines 219-236, for the outcomes s, c, d of the
\* calculators
MetricEntries(s, c, d, compute_db) ==
    (IF compute_db THEN Guarded("davies_bouldin", d) ELSE EmptyMap)
        @@ Guarded("calinski_harabasz", c) @@ Guarded("silhouette", s)

\* a calculator on the labels y_eval: scikit-learn's check_number_of_labels
\* raises unless 1 < number of labels < number of rows
ScoresOn(y_eval) ==
    IF 1 < NumLabels(y_eval) /\ NumLabels(y_eval) < Len(y_eval) THEN ScoreOutcomes
    ELSE {o \in ScoreOutcomes : o.raised}

\* (the guard off by one)
TooFewClustersOffByOne(y) == NumLabels(y) < 1

\* len(set(y.tolist())) < 2
TooFewClusters(y) == NumLabels(y) < 2

\* compute_cluster_metrics(embeddings, labels, noise_label, sample_size,
\* random_state, metric, compute_db): every result it can give.  rows, calls
\* and labels_after record the rows evaluated, the calculators' outcomes and
\* the caller's labels array after the call.
compute_cluster_metrics(emb, labels, noise_label, sample_size, compute_db) ==
    IF IsNone(labels)
    THEN {[raised |-> FALSE,
           value |-> [silhouette |-> None, calinski_harabasz |-> None,
                      davies_bouldin |-> None, note |-> "no labels"],
           rows |-> <<>>, calls |-> EmptyMap, labels_after |-> labels]}
    ELSE LET X == Kept(labels.v, noise_label)
             y == Take(labels.v, X)
         IN IF TooFewClusters(y)
            THEN {[raised |-> FALSE,
                   value |-> [silhouette |-> None, calinski_harabasz |-> None,
                              davies_bouldin |-> None, note |-> "insufficient clusters",
                              n_samples |-> Len(X),
                              n_clusters |-> NumLabels(y)],
                   rows |-> <<>>, calls |-> EmptyMap, labels_after |-> labels]}
            ELSE UNION {
                  {[raised |-> FALSE,
                   value |-> MetricEntries(s, c, d, compute_db)
                               @@ [silhouette |-> None, calinski_harabasz |-> None,
                                   davies_bouldin |-> None,
                                   n_samples |-> Len(X_eval),
                                   n_clusters |-> NumLabels(Take(labels.v, X_eval))],
                   rows |-> X_eval,
                   calls |-> (IF compute_db THEN ("davies_bouldin" :> d) ELSE EmptyMap)
                               @@ ("calinski_harabasz" :> c) @@ ("silhouette" :> s),
                   labels_after |-> labels]
                  : s \in ScoresOn(Take(labels.v, X_eval)),
                    c \in ScoresOn(Take(labels.v, X_eval)),
                    d \in IF compute_db THEN ScoresOn(Take(labels.v, X_eval))
                          ELSE {[raised |-> FALSE, v |-> 0]}}
                  : X_eval \in MaybeSample(X, sample_size)}

----------------------------------------------------------------------------
(* top_representatives and _get_center (core/representatives.py).  Rows    *)
(* are numbered 1..N here and 0..N-1 in the code; cluster ids and top_n    *)
(* are the code's.                                                         *)

\* cosine_similarity of two rows of a one-column matrix: x.c / (|x| |c|),
\* and 0 when either is the zero row
cosine_similarity(x, c) ==
    LET Sign(v) == IF v > 0 THEN 1 ELSE IF v < 0 THEN -1 ELSE 0
    IN  Sign(x) * Sign(c)

\* _get_center(centers, label): centers.get(label) on a dict.  On a dense
\* array centers[label]: rows 0..len-1, a negative label counts from the
\* end, and a label outside -len..len-1 raises IndexError, which is caught
_get_center(centers, label) ==
    IF centers.t = "dict"
    THEN (IF label \in DOMAIN centers.v THEN Float(centers.v[label]) ELSE None)
    ELSE LET a == centers.v
         IN  IF label >= 0 /\ label < Len(a) THEN Float(a[label + 1])
             ELSE IF label < 0 /\ (- label) <= Len(a) THEN Float(a[Len(a) + label + 1])
             ELSE None

\* np.where(labels == c)[0]: the rows of label c, ascending
Where(labels, c) ==
    LET S == Members(labels, c)
    IN  CHOOSE s \in [1..Cardinality(S) -> S] :
            \A i, j \in 1..Cardinality(S) : i < j => s[i] < s[j]

\* np.argsort(sims): the positions in an order of non-decreasing sims;
\* positions of equal sims in any order
Argsort(sims) ==
    {p \in Choice(Len(sims), Len(sims)) :
        \A i \in 1..(Len(sims) - 1) : sims[p[i]] <= sims[p[i + 1]]}

\* s[:n]: the first n items, or all but the last -n when n is negative
Slice(s, n) ==
    SubSeq(s, 1, IF n >= 0 THEN Min(n, Len(s))
                 ELSE IF Len(s) + n > 0 THEN Len(s) + n ELSE 0)

\* (the positions within the cluster, not the rows they stand for)
BestPositions(idx, order, top_n) ==
    Slice([i \in 1..Len(order) |-> order[Len(order) + 1 - i]], top_n)

\* idx[order[::-1][:top_n]]
Best(idx, order, top_n) ==
    Take(idx, Slice([i \in 1..Len(order) |-> order[Len(order) + 1 - i]], top_n))

\* (ascending: the reversal left out)
RankedAscending(idx, sims, top_n) ==
    {Take(idx, Slice(p, top_n)) : p \in Argsort(sims)}

\* idx[np.argsort(sims)[::-1][:top_n]]: the rows of idx by decreasing
\* similarity, cut to top_n
Ranked(idx, sims, top_n) == {Best(idx, p, top_n) : p \in Argsort(sims)}

\* top_representatives(embeddings, labels, centers, top_n, noise_label):
\* a list for every label but the noise label
top_representatives(emb, labels, centers, top_n, noise_label) ==
    LET keys == {c \in Range(labels) : IsNone(noise_label) \/ c # noise_label.v}
        lists(c) ==
            LET idx == Where(labels, c)
                center_vec == _get_center(centers, c)
            IN  IF Len(idx) = 0 \/ IsNone(center_vec) THEN {<<>>}
                ELSE Ranked(idx,
                            [j \in 1..Len(idx) |->
                                cosine_similarity(emb[idx[j]], center_vec.v)],
                            top_n)
    IN  {[raised |-> FALSE, value |-> Dict(reps)] :
            reps \in {r \in [keys -> UNION {lists(c) : c \in keys}] :
                        \A c \in keys : r[c] \in lists(c)}}

----------------------------------------------------------------------------
(* clustering_stability (core/robustness.py).  The scores are binary       *)
(* floating-point numbers: a significand of Precision bits (53 in a        *)
(* float64) and round-to-nearest, ties-to-even, after every operation.  A  *)
(* score is held as its count of units of 1 / One; the scores used are 0   *)
(* and those from 0.5 to 1.0, which keeps every sum and mean at or above   *)
(* Pow2(Precision - 1) units, where the floats are whole counts of units.  *)

RECURSIVE Pow2(_)
Pow2(n) == IF n = 0 THEN 1 ELSE 2 * Pow2(n - 1)

\* 1.0, in units
One == Pow2(Precision + 2)

\* the gap between neighbouring floats at num / den
RECURSIVE Ulp(_, _, _)
Ulp(num, den, s) ==
    IF num < den * s * Pow2(Precision) THEN s ELSE Ulp(num, den, 2 * s)

\* the float nearest to num / den, the one of even significand on a tie
RoundFloat(num, den) ==
    IF num = 0 THEN 0
    ELSE LET s == Ulp(num, den, 1)
             lo == (num \div (den * s)) * s
             twice == 2 * (num - lo * den)
         IN  IF twice < s * den THEN lo
             ELSE IF twice > s * den THEN lo + s
             ELSE IF (lo \div s) % 2 = 0 THEN lo ELSE lo + s

\* np.add.reduce(aris): the items added one by one, each sum rounded
RECURSIVE FloatSum(_)
FloatSum(aris) ==
    IF aris = <<>> THEN 0
    ELSE RoundFloat(FloatSum(SubSeq(aris, 1, Len(aris) - 1)) + aris[Len(aris)], 1)

\* np.mean(aris): the rounded sum divided by the count, rounded
FloatMean(aris) == RoundFloat(FloatSum(aris), Len(aris))

\* adjusted_rand_score(a, b) of two label vectors: 0.0, or a float from
\* 0.5 to 1.0
AriValues ==
    {0} \cup {v \in (One \div 2)..One : RoundFloat(v, 1) = v}

\* the (i, j), i < j, of the double loop over the runs, in the loop's order
RunPairs(runs) ==
    LET P == {p \in (1..runs) \X (1..runs) : p[1] < p[2]}
    IN  CHOOSE s \in [1..Cardinality(P) -> P] :
            \A a, b \in 1..Cardinality(P) :
                a < b => \/ s[a][1] < s[b][1]
                         \/ (s[a][1] = s[b][1] /\ s[a][2] < s[b][2])

\* the scores the double loop can collect.  Run i ends with a partition of
\* the rows, part[i] (the same number: the same partition); with k = 1 there
\* is one partition only.  adjusted_rand_score is a symmetric function of
\* the two partitions, and 1.0 exactly when they are the same.
PairwiseAris(k, runs) ==
    LET pairs == RunPairs(runs)
        C == {p \in (1..runs) \X (1..runs) : p[1] < p[2]}
        lo(p, part) == Min(part[p[1]], part[p[2]])
        hi(p, part) == IF part[p[1]] >= part[p[2]] THEN part[p[1]] ELSE part[p[2]]
    IN  {[n \in DOMAIN pairs |->
            IF part[pairs[n][1]] = part[pairs[n][2]] THEN One
            ELSE score[<<lo(pairs[n], part), hi(pairs[n], part)>>]] :
                part \in (IF k = 1 THEN {[i \in 1..runs |-> 1]}
                          ELSE [1..runs -> 1..runs]),
                score \in [C -> AriValues \ {One}]}

\* clustering_stability(embeddings, k, runs, random_state): every run fits
\* KMeans(n_clusters=k) on a bootstrap sample of n rows, which raises for a
\* k outside 1..n
clustering_stability(emb, k, runs) ==
    IF runs >= 1 /\ \E f \in KMeansFits(emb, k) : f.raised
    THEN {Raised("InvalidParameterError")}
    ELSE {[raised |-> FALSE,
           value |-> [runs |-> Float(runs * One),
                      ari_mean |-> Float(IF aris # <<>> THEN FloatMean(aris) ELSE 0),
                      ari_min |-> Float(IF aris # <<>>
                                        THEN CHOOSE x \in Range(aris) :
                                                \A y \in Range(aris) : x <= y
                                        ELSE 0),
                      ari_max |-> Float(IF aris # <<>>
                                        THEN CHOOSE x \in Range(aris) :
                                                \A y \in Range(aris) : x >= y
                                        ELSE 0)]] :
            aris \in PairwiseAris(k, runs)}

----------------------------------------------------------------------------
(* KRecommend, _recommend_by_elbow, _normalize_scores, recommend_k         *)
(* (core/plot_k.py).  A metric map is a dict from K to a score; its        *)
(* iteration order is ascending K, the order in which the scans fill it.   *)
(* Scores are whole numbers, and Infinity stands for float('inf').  A      *)
(* normalised score is held as its count of units of 1 / NormScale.        *)

Infinity == 9

NormScale == 2

\* sorted(d.keys())
SortedKeys(d) ==
    CHOOSE s \in [1..Cardinality(DOMAIN d) -> DOMAIN d] :
        \A i, j \in 1..Cardinality(DOMAIN d) : i < j => s[i] < s[j]

\* (the first item, whatever the keys)
FirstItem(seq, key) == seq[1]

\* max(seq, key=lambda k: key[k]): the first item of the greatest key
FirstMax(seq, key) ==
    seq[CHOOSE i \in DOMAIN seq :
            /\ \A j \in DOMAIN seq : key[seq[j]] <= key[seq[i]]
            /\ \A j \in 1..(i - 1) : key[seq[j]] < key[seq[i]]]

\* the fields of the dataclass KRecommend
KRecommend(best_k, method) == [best_k |-> best_k, method |-> method]

\* (the largest K, whatever the inertias)
elbow_largest_k(k_to_inertia) ==
    SortedKeys(k_to_inertia)[Cardinality(DOMAIN k_to_inertia)]

\* _recommend_by_elbow(k_to_inertia).  Inertias are held in units of the
\* floor of np.clip, 1e-9: clipping raises what is below one unit to one
\* unit.  The curvature at position i is |log a - 2 log b + log c| =
\* log(hi / lo), for hi and lo the greater and the smaller of a * c and
\* b * b; curvatures compare as hi / lo do.
_recommend_by_elbow(k_to_inertia) ==
    LET ks == SortedKeys(k_to_inertia)
        inertia(i) == IF k_to_inertia[ks[i]] < 1 THEN 1 ELSE k_to_inertia[ks[i]]
        ac(i) == inertia(i - 1) * inertia(i + 1)
        bb(i) == inertia(i) * inertia(i)
        hi(i) == IF ac(i) >= bb(i) THEN ac(i) ELSE bb(i)
        lo(i) == IF ac(i) >= bb(i) THEN bb(i) ELSE ac(i)
        AtLeast(i, j) == hi(i) * lo(j) >= hi(j) * lo(i)
    IN  IF Len(ks) < 3 THEN ks[1]
        ELSE ks[CHOOSE i \in 2..(Len(ks) - 1) :
                    /\ \A j \in 2..(Len(ks) - 1) : AtLeast(i, j)
                    /\ \A j \in 2..(i - 1) : ~AtLeast(j, i)]

\* the dict norm that _normalize_scores builds.  Scores of the model that
\* differ are 1 apart or more, so np.isclose is equality.
Normalized(scores, higher_better) ==
    LET values == {scores[k] : k \in DOMAIN scores} \ {Infinity}
        v_min == CHOOSE x \in values : \A y \in values : x <= y
        v_max == CHOOSE x \in values : \A y \in values : x >= y
        scaled(v) == ((v - v_min) * NormScale) \div (v_max - v_min)
    IN  IF values = {} THEN [k \in DOMAIN scores |-> 0]
        ELSE IF v_min = v_max THEN [k \in DOMAIN scores |-> NormScale \div 2]
        ELSE [k \in DOMAIN scores |->
                IF scores[k] = Infinity THEN 0
                ELSE IF higher_better THEN scaled(scores[k])
                ELSE NormScale - scaled(scores[k])]

\* (the normalised values written back into the dict given)
normalize_scores_in_place(scores, higher_better) ==
    [value |-> Normalized(scores, higher_better),
     scores |-> Normalized(scores, higher_better)]

\* _normalize_scores(scores, higher_better): the new dict it returns, and
\* the dict it was given as the call leaves it
_normalize_scores(scores, higher_better) ==
    [value |-> Normalized(scores, higher_better), scores |-> scores]

\* recommend_k(k_to_inertia, k_to_silhouette, k_to_calinski_harabasz,
\* k_to_davies_bouldin): the KRecommend it returns or the error it raises,
\* the four dicts as the call leaves them, and the candidates dict of the
\* call (signal name, nominated K) in insertion order
recommend_k(k_to_inertia, k_to_silhouette, k_to_calinski_harabasz, k_to_davies_bouldin) ==
    LET sil_norm == _normalize_scores(k_to_silhouette, TRUE)
        ch_norm == _normalize_scores(k_to_calinski_harabasz, TRUE)
        db_norm == _normalize_scores(k_to_davies_bouldin, FALSE)
        maps == <<k_to_inertia, sil_norm.scores, ch_norm.scores, db_norm.scores>>
        candidates ==
            (IF k_to_silhouette # EmptyMap
             THEN << <<"silhouette_max",
                       FirstMax(SortedKeys(k_to_silhouette), k_to_silhouette)>> >>
             ELSE <<>>)
            \o (IF k_to_calinski_harabasz # EmptyMap
                THEN << <<"calinski_harabasz_max",
                          FirstMax(SortedKeys(k_to_calinski_harabasz),
                                   k_to_calinski_harabasz)>> >>
                ELSE <<>>)
            \o (IF k_to_davies_bouldin # EmptyMap
                THEN << <<"davies_bouldin_min",
                          FirstMax(SortedKeys(k_to_davies_bouldin),
                                   [k \in DOMAIN k_to_davies_bouldin |->
                                       - k_to_davies_bouldin[k]])>> >>
                ELSE <<>>)
            \o (IF k_to_inertia # EmptyMap
                THEN << <<"elbow_curvature", _recommend_by_elbow(k_to_inertia)>> >>
                ELSE <<>>)
        nominees == [i \in DOMAIN candidates |-> candidates[i][2]]
        vote_counts == [k \in Range(nominees) |->
                           Cardinality({i \in DOMAIN candidates : nominees[i] = k})]
        composite_score == [k \in Range(nominees) |->
                               Get(sil_norm.value, k, 0) + Get(ch_norm.value, k, 0)
                                   + Get(db_norm.value, k, 0)]
        max_votes == CHOOSE v \in Range(vote_counts) :
                        \A w \in Range(vote_counts) : w <= v
        IsTop(k) == vote_counts[k] = max_votes
        best_k == FirstMax(SelectSeq(nominees, IsTop), composite_score)
        Nominates(m) == \E i \in DOMAIN candidates : candidates[i] = <<m, best_k>>
    IN  IF candidates # <<>>
        THEN [raised |-> FALSE,
              value |-> KRecommend(best_k,
                            <<"vote">> \o SelectSeq(<<"calinski_harabasz_max",
                                                     "davies_bouldin_min",
                                                     "elbow_curvature",
                                                     "silhouette_max">>, Nominates)),
              maps |-> maps, candidates |-> candidates]
        ELSE IF k_to_silhouette = EmptyMap
        THEN [raised |-> TRUE, error |-> "ValueError", maps |-> maps, candidates |-> candidates]
        ELSE [raised |-> FALSE,
              value |-> KRecommend(FirstMax(SortedKeys(k_to_silhouette), k_to_silhouette),
                                   <<"silhouette_max">>),
              maps |-> maps, candidates |-> candidates]

----------------------------------------------------------------------------
(* The K step of App._pipeline_all (ui/app.py): the scan, then the call    *)
(* of recommend_k with two maps and three keyword arguments.               *)

\* Python's binding of the arguments of a call to the parameters of a
\* function whose parameters are all required: TypeError for a keyword
\* that names no parameter and for a parameter left without an argument,
\* else the arguments in the order of the parameters
Bind(params, positional, keywords) ==
    IF \E kw \in DOMAIN keywords : kw \notin Range(params)
    THEN Raised("TypeError")
    ELSE IF \E i \in (Len(positional) + 1)..Len(params) : params[i] \notin DOMAIN keywords
    THEN Raised("TypeError")
    ELSE [raised |-> FALSE,
          value |-> [i \in 1..Len(params) |->
                        IF i <= Len(positional) THEN positional[i]
                        ELSE keywords[params[i]]]]

\* the parameters of recommend_k
RecommendKParams ==
    <<"k_to_inertia", "k_to_silhouette", "k_to_calinski_harabasz", "k_to_davies_bouldin">>

\* self.k_scan = scan_k(...); rec = recommend_k(k_to_inertia,
\* k_to_silhouette, weight=..., penalty_threshold=12, penalty_strength=0.02);
\* self.k_best = int(rec.best_k); ... rec.method ... rec.score.  The weight
\* is held in tenths and the penalty strength in hundredths.
pipeline_recommend(emb, k_min, k_max, seed, weight) ==
    {IF s.raised THEN Raised(s.error)
     ELSE LET k_to_inertia == [k \in DOMAIN s.value.k_to_inertia.v |->
                                  s.value.k_to_inertia.v[k].v]
              k_to_silhouette == [k \in DOMAIN s.value.k_to_silhouette.v |->
                                     s.value.k_to_silhouette.v[k].v]
              call == Bind(RecommendKParams, <<k_to_inertia, k_to_silhouette>>,
                           [weight |-> weight, penalty_threshold |-> 12,
                            penalty_strength |-> 2])
              Reads(rec) ==
                  IF rec.raised
                  THEN [raised |-> TRUE, error |-> rec.error, k_scan |-> s.value]
                  ELSE IF "score" \notin DOMAIN rec.value
                  THEN [raised |-> TRUE, error |-> "AttributeError", k_scan |-> s.value]
                  ELSE [raised |-> FALSE, k_scan |-> s.value, k_best |-> rec.value.best_k]
          IN  IF call.raised
              THEN [raised |-> TRUE, error |-> call.error, k_scan |-> s.value]
              ELSE Reads(recommend_k(call.value[1], call.value[2],
                                     call.value[3], call.value[4]))
     : s \in scan_k(emb, k_min, k_max, seed)}

----------------------------------------------------------------------------
(* AppConfig.apply_user_settings (config.py), for the K range. *)

DefaultKMin == 2
DefaultKMax == 20

\* the k_min and k_max the configuration holds after settings that give
\* k_min and k_max (None, or a number): None and numbers <= 0 are replaced
\* by the defaults, and nothing else is checked
apply_user_settings(k_min, k_max) ==
    [k_min |-> IF IsNone(k_min) \/ k_min.v <= 0 THEN DefaultKMin ELSE k_min.v,
     k_max |-> IF IsNone(k_max) \/ k_max.v <= 0 THEN DefaultKMax ELSE k_max.v]

----------------------------------------------------------------------------
(* One pass of the bootstrap loop of clustering_stability                  *)
(* (core/robustness.py), on a one-column embedding matrix.                 *)

\* (the centroid of least similarity)
ArgminSimilarity(x, centers) ==
    CHOOSE c \in 0..(Len(centers) - 1) :
        \A d \in 0..(Len(centers) - 1) :
            \/ x * centers[c + 1] < x * centers[d + 1]
            \/ (x * centers[c + 1] = x * centers[d + 1] /\ c <= d)

\* emb_similarity(embeddings[p], centers).argmax(): the row and every
\* centroid are divided by their norm + 1e-12, which keeps the sign of the
\* row and the order of the centroids, so the products are in the order
\* of sign(x) * c; argmax is the first index of the greatest
ArgmaxSimilarity(x, centers) ==
    CHOOSE c \in 0..(Len(centers) - 1) :
        \A d \in 0..(Len(centers) - 1) :
            LET sc == (IF x > 0 THEN 1 ELSE IF x < 0 THEN -1 ELSE 0) * centers[c + 1]
                sd == (IF x > 0 THEN 1 ELSE IF x < 0 THEN -1 ELSE 0) * centers[d + 1]
            IN  sc > sd \/ (sc = sd /\ c <= d)

\* the loop body for one run: idx are the n rows drawn with replacement,
\* KMeans ends with some centroids and labels every row of the sample with
\* its nearest centroid (the first of equally near ones), lab_full[idx] =
\* lab_bs keeps the last label written to a position, and a position left
\* at -1 gets the centroid of greatest similarity
bootstrap_run(emb, k) ==
    IF \E f \in KMeansFits(emb, k) : f.raised
    THEN {Raised("InvalidParameterError")}
    ELSE {LET n == Len(emb)
              Dist(x, c) == IF x >= c THEN x - c ELSE c - x
              lab_bs == [j \in 1..n |->
                          CHOOSE c \in 0..(k - 1) :
                              \A d \in 0..(k - 1) :
                                  \/ Dist(emb[idx[j]], centers[c + 1])
                                        < Dist(emb[idx[j]], centers[d + 1])
                                  \/ (Dist(emb[idx[j]], centers[c + 1])
                                        = Dist(emb[idx[j]], centers[d + 1]) /\ c <= d)]
              written == [p \in 1..n |->
                            IF \E j \in 1..n : idx[j] = p
                            THEN lab_bs[CHOOSE j \in 1..n :
                                           idx[j] = p /\ \A i \in 1..n : idx[i] = p => i <= j]
                            ELSE -1]
          IN  [raised |-> FALSE, idx |-> idx, centers |-> centers, lab_bs |-> lab_bs,
               lab_full |-> [p \in 1..n |->
                               IF written[p] = -1 THEN ArgmaxSimilarity(emb[p], centers)
                               ELSE written[p]]]
          : idx \in [1..Len(emb) -> 1..Len(emb)], centers \in [1..k -> {-1, 1, 2}]}

----------------------------------------------------------------------------
(* The application window (ui/app.py): the analysis state of the App, its  *)
(* buttons, its worker threads and the callbacks the workers hand to the   *)
(* main loop with master.after(0, ...).  A data frame or an array is       *)
(* modelled by its row count, 0 standing for None.                         *)

Buttons ==
    {"btn_import", "btn_run_all", "btn_run_cluster", "btn_export", "btn_kplot",
     "btn_compare", "btn_priority", "btn_report_offline"}

\* App.__init__: nothing loaded, nothing running, every button enabled
NewApp ==
    [df |-> 0, df_work |-> 0, emb |-> 0, labels |-> 0, cluster_id |-> FALSE,
     k_scan |-> FALSE, cluster_keywords |-> FALSE, cluster_reps |-> FALSE,
     _running |-> FALSE, disabled |-> {}, _threads |-> <<>>, after |-> <<>>]

_set_running(a, is_running) ==
    [a EXCEPT !._running = is_running,
              !.disabled = IF is_running THEN Buttons ELSE {}]

\* _busy touches every button but btn_report_offline
_busy(a, is_busy) ==
    [a EXCEPT !.disabled = IF is_busy THEN @ \cup (Buttons \ {"btn_report_offline"})
                           ELSE @ \ (Buttons \ {"btn_report_offline"})]

\* the guard reads _running, which only a callback of the worker sets
_run_in_thread(a, job) ==
    IF a._running THEN a
    ELSE [a EXCEPT !._threads = Append(@, [job |-> job, pc |-> "started"])]

\* fewer rows than this after the filter, and _pipeline_all raises
MinRows == 30

\* _pipeline_all on a filter result of m rows, of which the first `done'
\* steps (filter, embedding, K scan, fit, keywords, representatives,
\* export) succeed and the next one raises
_pipeline_all(a, m, done) ==
    [a EXCEPT !.df_work = IF done >= 1 THEN m ELSE @,
              !.emb = IF done >= 2 THEN m ELSE @,
              !.k_scan = IF done >= 3 THEN TRUE ELSE @,
              !.labels = IF done >= 4 THEN m ELSE @,
              !.cluster_id = IF done >= 4 THEN TRUE ELSE IF done >= 1 THEN FALSE ELSE @,
              !.cluster_keywords = IF done >= 5 THEN TRUE ELSE @,
              !.cluster_reps = IF done >= 6 THEN TRUE ELSE @]

\* the job of on_run_cluster_only: fit_kmeans on self.emb, then the labels
\* become a column of df_work, which pandas refuses for another length
recluster_job(a, done) ==
    IF a.emb = 0 \/ done = 0 THEN [raised |-> TRUE, app |-> a]
    ELSE IF a.df_work # a.emb \/ done = 1
    THEN [raised |-> TRUE, app |-> [a EXCEPT !.labels = a.emb]]
    ELSE [raised |-> done < 3,
          app |-> [a EXCEPT !.labels = a.emb, !.cluster_id = TRUE,
                            !.cluster_keywords = TRUE,
                            !.cluster_reps = IF done >= 3 THEN TRUE ELSE @]]

----------------------------------------------------------------------------
(* The embedder and its cache directory (core/embedding.py).  `files' maps  *)
(* the name of a cache file to the matrix saved in it.  A text is short     *)
(* (under 200 characters) and already stripped.                             *)

\* the lists of texts a caller passes
TextLists == UNION {[1..n -> {"a", "b"}] : n \in 1..MaxTexts}

\* _make_cache_key: a digest of the model name, the number of texts and the
\* first 200 characters of the first and of the last text; two inputs
\* have one digest only if they are equal here
_make_cache_key(model_name, texts) ==
    <<model_name, Len(texts), texts[1], texts[Len(texts)]>>

\* self.model.encode(cleaned_texts).astype(np.float32): row i is the
\* model's vector of text i
ModelEncode(model_name, texts) ==
    [i \in 1..Len(texts) |-> [model |-> model_name, text |-> texts[i]]]

\* encode(texts, cache_path): a file of the key that loads and has as many
\* rows as there are texts is returned as it is; else the model encodes
\* and the matrix is saved under the key, unless saving fails
encode(model_name, texts, dir) ==
    LET key == _make_cache_key(model_name, texts)
        emb == ModelEncode(model_name, texts)
        computed == {[raised |-> TRUE, error |-> "RuntimeError", files |-> dir]}
                      \cup {[raised |-> FALSE, value |-> emb, hit |-> FALSE,
                             files |-> IF saved THEN Put(dir, key, emb) ELSE dir]
                            : saved \in BOOLEAN}
    IN  IF key \in DOMAIN dir
        THEN (IF Len(dir[key]) = Len(texts)
              THEN {[raised |-> FALSE, value |-> dir[key], hit |-> TRUE, files |-> dir]}
              ELSE {}) \cup computed
        ELSE computed

----------------------------------------------------------------------------
(* The state machine: one call per behaviour. *)

NoArgs == [none |-> TRUE]
NoRes == [raised |-> FALSE]

Init ==
    /\ op = "init"
    /\ args = NoArgs
    /\ res = NoRes
    /\ first = NoRes
    /\ memo = {}
    /\ rng = 0
    /\ app = NewApp
    /\ files = EmptyMap

KRange == 1..MaxK

ScanSampleSizes == {None, Given(0), Given(NRows - 1)}

ScanK ==
    /\ op = "init"
    /\ \E emb \in Embeddings, k_min \in KRange, k_max \in KRange, seed \in Seeds :
         \E r \in scan_k(emb, k_min, k_max, seed) :
            /\ op' = "scan_k"
            /\ args' = [emb |-> emb, k_min |-> k_min, k_max |-> k_max, seed |-> seed]
            /\ res' = r
    /\ UNCHANGED <<first, memo, rng, app, files>>

ScanKAgglomerative ==
    /\ op = "init"
    /\ \E emb \in Embeddings, k_min \in KRange, k_max \in KRange, seed \in Seeds,
          linkage \in {S_ward, S_Ward, S_average}, metric \in {S_euclidean, S_cosine},
          sample_size \in ScanSampleSizes :
         \E r \in scan_k_agglomerative(emb, k_min, k_max, linkage, metric, sample_size, seed) :
            /\ op' = "scan_k_agglomerative"
            /\ args' = [emb |-> emb, k_min |-> k_min, k_max |-> k_max, seed |-> seed,
                        linkage |-> linkage, metric |-> metric, sample_size |-> sample_size]
            /\ res' = r
    /\ UNCHANGED <<first, memo, rng, app, files>>

NextScan == ScanK \/ ScanKAgglomerative

SpecScan == Init /\ [][NextScan]_vars

S_spectral == <<"s","p","e","c","t","r","a","l">>

\* method names a caller passes: missing, empty, blank, known in several
\* spellings, unknown
Methods ==
    {NoneObj, Str(<<>>), Str(<<" ", " ">>), Str(S_KMeans),
     Str(<<" ">> \o S_kmeans \o <<" ">>), Str(S_Agglomerative), Str(S_DBSCAN),
     Str(S_spectral)}

\* a key of params that is absent, or present with one of the values
Opt(key, values) == {EmptyMap} \cup {key :> v : v \in values}

ParamSets ==
    {a @@ b @@ c @@ d @@ e :
        a \in Opt("n_clusters", {0, 2}), b \in Opt("k", {1}),
        c \in Opt("linkage", {S_Ward, S_average}), d \in Opt("metric", {S_Cosine}),
        e \in Opt("noise_label", {-1, 0})}

\* a call leaves its result, what the library remembers and the generator
Returns(c) ==
    /\ res' = c.res
    /\ memo' = memo \cup c.lib
    /\ rng' = rng + c.draws

RunClustering ==
    /\ op = "init"
    /\ \E emb \in Embeddings, method \in Methods, params \in ParamSets, seed \in Seeds :
         \E c \in run_clustering(emb, method, params, seed) :
            /\ op' = "run_clustering"
            /\ args' = [emb |-> emb, method |-> method, params |-> params, seed |-> seed]
            /\ Returns(c)
    /\ UNCHANGED <<first, app, files>>

\* the same call once more, with identical arguments
RunClusteringAgain ==
    /\ op = "run_clustering"
    /\ \E c \in run_clustering(args.emb, args.method, args.params, args.seed) :
            /\ op' = "run_clustering_again"
            /\ first' = res
            /\ Returns(c)
    /\ UNCHANGED <<args, app, files>>

FitKMeans ==
    /\ op = "init"
    /\ \E emb \in Embeddings, k \in KRange, seed \in Seeds :
         \E c \in fit_kmeans(emb, k, seed) :
            /\ op' = "fit_kmeans"
            /\ args' = [emb |-> emb, k |-> k, seed |-> seed]
            /\ Returns(c)
    /\ UNCHANGED <<first, app, files>>

FitKMeansAgain ==
    /\ op = "fit_kmeans"
    /\ \E c \in fit_kmeans(args.emb, args.k, args.seed) :
            /\ op' = "fit_kmeans_again"
            /\ first' = res
            /\ Returns(c)
    /\ UNCHANGED <<args, app, files>>

\* labels a caller passes: None, or one label per row
LabelArrays == {NoneObj} \cup {Array(l) : l \in [1..NRows -> {-1, 0, 1}]}

SampleSizes == {None} \cup {Given(n) : n \in 0..NRows}

ComputeClusterMetrics ==
    /\ op = "init"
    /\ \E emb \in Embeddings, labels \in LabelArrays, noise_label \in {-1, 0},
          sample_size \in SampleSizes, seed \in Seeds, compute_db \in BOOLEAN :
         \E r \in compute_cluster_metrics(emb, labels, noise_label, sample_size, compute_db) :
            /\ op' = "compute_cluster_metrics"
            /\ args' = [emb |-> emb, labels |-> labels, noise_label |-> noise_label,
                        sample_size |-> sample_size, seed |-> seed, compute_db |-> compute_db]
            /\ res' = r
    /\ UNCHANGED <<first, memo, rng, app, files>>

NextMetrics == ComputeClusterMetrics

SpecMetrics == Init /\ [][NextMetrics]_vars

NextHier == ScanKAgglomerative \/ RunClustering

SpecHier == Init /\ [][NextHier]_vars

NextFit == RunClustering \/ RunClusteringAgain \/ FitKMeans \/ FitKMeansAgain

SpecFit == Init /\ [][NextFit]_vars

\* a one-column embedding matrix whose rows point either way or are zero;
\* also a label array with labels -1, 0, 1
RepRows == [1..NRows -> {-1, 0, 1}]

\* centers as an id-to-vector dict or as a dense array, for cluster ids 0, 1
RepCenters ==
    {Dict([c \in ids |-> IF c = 0 THEN 1 ELSE -1]) : ids \in {{0}, {0, 1}}}
        \cup {Array(<<1>>), Array(<<1, -1>>)}

\* negative, zero, one, and as many as there are rows
TopNs == {-1, 0, 1, NRows}

TopRepresentatives ==
    /\ op = "init"
    /\ \E emb \in RepRows, labels \in RepRows, centers \in RepCenters,
          top_n \in TopNs, noise_label \in {None, Given(-1)} :
         \E r \in top_representatives(emb, labels, centers, top_n, noise_label) :
            /\ op' = "top_representatives"
            /\ args' = [emb |-> emb, labels |-> labels, centers |-> centers,
                        top_n |-> top_n, noise_label |-> noise_label]
            /\ res' = r
    /\ UNCHANGED <<first, memo, rng, app, files>>

SpecReps == Init /\ [][TopRepresentatives]_vars

\* run counts a caller passes: none, one, and enough for one and three pairs
Runs == {0, 1, 2, 3}

ClusteringStability ==
    /\ op = "init"
    /\ \E emb \in Embeddings, k \in KRange, runs \in Runs, seed \in Seeds :
         \E r \in clustering_stability(emb, k, runs) :
            /\ op' = "clustering_stability"
            /\ args' = [emb |-> emb, k |-> k, runs |-> runs, seed |-> seed]
            /\ res' = r
    /\ UNCHANGED <<first, memo, rng, app, files>>

SpecStability == Init /\ [][ClusteringStability]_vars

\* the key sets of the maps a caller passes: none, two overlapping scanned
\* ranges, and their union
RecKeySets == {{}, {2, 3}, {3, 4}, {2, 3, 4}}

\* the metric maps with scores from vals
RecMaps(vals) == UNION {[ks -> vals] : ks \in RecKeySets}

RecommendK ==
    /\ op = "init"
    /\ \E k_to_inertia \in RecMaps({1, 2}), k_to_silhouette \in RecMaps({0, 1}),
          k_to_calinski_harabasz \in RecMaps({0, 1}),
          k_to_davies_bouldin \in RecMaps({0, 1}) :
            /\ op' = "recommend_k"
            /\ args' = [maps |-> <<k_to_inertia, k_to_silhouette,
                                   k_to_calinski_harabasz, k_to_davies_bouldin>>]
            /\ res' = recommend_k(k_to_inertia, k_to_silhouette,
                                  k_to_calinski_harabasz, k_to_davies_bouldin)
    /\ UNCHANGED <<first, memo, rng, app, files>>

\* the caller invokes recommend_k once more on the same four dicts
RecommendKAgain ==
    /\ op = "recommend_k"
    /\ op' = "recommend_k_again"
    /\ first' = res
    /\ res' = recommend_k(res.maps[1], res.maps[2], res.maps[3], res.maps[4])
    /\ UNCHANGED <<args, memo, rng, app, files>>

NextRecommend == RecommendK \/ RecommendKAgain

SpecRecommend == Init /\ [][NextRecommend]_vars

\* cfg.k_score_weight: 0.0, the default 0.7, and 1.0, in tenths
Weights == {0, 7, 10}

PipelineRecommend ==
    /\ op = "init"
    /\ \E emb \in Embeddings, k_min \in KRange, k_max \in KRange, seed \in Seeds,
          weight \in Weights :
         \E r \in pipeline_recommend(emb, k_min, k_max, seed, weight) :
            /\ op' = "pipeline_recommend"
            /\ args' = [emb |-> emb, k_min |-> k_min, k_max |-> k_max, seed |-> seed,
                        weight |-> weight]
            /\ res' = r
    /\ UNCHANGED <<first, memo, rng, app, files>>

SpecPipeline == Init /\ [][PipelineRecommend]_vars

\* a K setting of the user: None, or a number
KSettings == {None} \cup {Given(n) : n \in 0..MaxK}

\* the settings are applied, then the pipeline scans cfg.k_min..cfg.k_max
ConfiguredScan ==
    /\ op = "init"
    /\ \E emb \in Embeddings, k_min \in KSettings, k_max \in KSettings, seed \in Seeds :
         LET cfg == apply_user_settings(k_min, k_max)
         IN  \E r \in scan_k(emb, cfg.k_min, cfg.k_max, seed) :
                /\ op' = "configured_scan"
                /\ args' = [emb |-> emb, k_min |-> k_min, k_max |-> k_max, seed |-> seed]
                /\ res' = [cfg |-> cfg] @@ r
    /\ UNCHANGED <<first, memo, rng, app, files>>

SpecConfiguredScan == Init /\ [][ConfiguredScan]_vars

\* a metric map with finite and infinite scores, over any keys of 2..4
NormalizeScores ==
    /\ op = "init"
    /\ \E ks \in SUBSET {2, 3, 4}, higher_better \in BOOLEAN :
         \E scores \in [ks -> {0, 1, 2, Infinity}] :
            /\ op' = "_normalize_scores"
            /\ args' = [scores |-> scores, higher_better |-> higher_better]
            /\ res' = [raised |-> FALSE,
                       value |-> _normalize_scores(scores, higher_better).value]
    /\ UNCHANGED <<first, memo, rng, app, files>>

\* an inertia map that is not empty, over any keys of 2..5
RecommendByElbow ==
    /\ op = "init"
    /\ \E ks \in (SUBSET {2, 3, 4, 5}) \ {{}} :
         \E k_to_inertia \in [ks -> {0, 1, 2, 4}] :
            /\ op' = "_recommend_by_elbow"
            /\ args' = [k_to_inertia |-> k_to_inertia]
            /\ res' = [raised |-> FALSE, value |-> _recommend_by_elbow(k_to_inertia)]
    /\ UNCHANGED <<first, memo, rng, app, files>>

NextScores == NormalizeScores \/ RecommendByElbow

SpecScores == Init /\ [][NextScores]_vars

\* one pass of the loop, on rows -1, 0, 1, ...
BootstrapRun ==
    /\ op = "init"
    /\ \E k \in KRange, seed \in Seeds :
         \E r \in bootstrap_run([i \in 1..NRows |-> i - 2], k) :
            /\ op' = "bootstrap_run"
            /\ args' = [emb |-> [i \in 1..NRows |-> i - 2], k |-> k, seed |-> seed]
            /\ res' = r
    /\ UNCHANGED <<first, memo, rng, app, files>>

SpecBootstrap == Init /\ [][BootstrapRun]_vars

(* The application: the handlers of the buttons run on the main thread;    *)
(* Tk hands no click to the handler of a disabled button.                  *)

Session == op \in {"init", "app"}

Clicked(button, a) ==
    /\ Session
    /\ button \notin app.disabled
    /\ op' = "app"
    /\ app' = a
    /\ UNCHANGED <<args, res, first, memo, rng, files>>

Started(job) ==
    /\ Len(app._threads) < MaxJobs
    /\ Clicked(job, _run_in_thread(app, job))

on_load_csv ==
    /\ Session
    /\ \E rows \in {40} :
        Clicked("btn_import",
                [app EXCEPT !.df = rows, !.df_work = 0, !.emb = 0, !.labels = 0,
                            !.cluster_id = FALSE, !.k_scan = FALSE,
                            !.cluster_keywords = FALSE, !.cluster_reps = FALSE])

on_run_all ==
    /\ app.df # 0
    /\ Len(app._threads) < MaxJobs
    /\ Clicked("btn_run_all", _run_in_thread(_busy(app, TRUE), "btn_run_all"))

on_run_cluster_only ==
    /\ app.df_work # 0 /\ app.emb # 0
    /\ Len(app._threads) < MaxJobs
    /\ Clicked("btn_run_cluster", _run_in_thread(_busy(app, TRUE), "btn_run_cluster"))

on_export ==
    /\ app.df_work # 0 /\ app.labels # 0 /\ app.cluster_id
    /\ Started("btn_export")

on_plot_k ==
    /\ app.k_scan
    /\ Started("btn_kplot")

on_asin_compare ==
    /\ app.df_work # 0 /\ app.cluster_id
    /\ Started("btn_compare")

on_priority ==
    /\ app.df_work # 0 /\ app.cluster_id
    /\ Started("btn_priority")

on_report_offline ==
    /\ app.df_work # 0 /\ app.cluster_keywords /\ app.cluster_reps /\ app.k_scan
    /\ app.cluster_id
    /\ Started("btn_report_offline")

\* runner, up to the call of fn: the worker asks the main loop to set the
\* running flag
RunnerStarts ==
    /\ Session
    /\ \E t \in DOMAIN app._threads :
          /\ app._threads[t].pc = "started"
          /\ app' = [app EXCEPT !._threads[t].pc = "fn",
                                !.after = Append(@, "set_running_true")]
    /\ op' = "app"
    /\ UNCHANGED <<args, res, first, memo, rng, files>>

\* runner, from fn to its end: the job, the callback the job leaves (done,
\* or the one of the except clause of on_run_all) and the one of finally
RunnerRuns ==
    /\ Session
    /\ \E t \in DOMAIN app._threads :
          /\ app._threads[t].pc = "fn"
          /\ \E only_negative \in BOOLEAN, done \in 0..7 :
                \E m \in IF only_negative THEN {20, 30, app.df} ELSE {app.df} :
                   LET job == app._threads[t].job
                       ran == IF job = "btn_run_all"
                              THEN [raised |-> done < 7, app |-> _pipeline_all(app, m, done)]
                              ELSE IF job = "btn_run_cluster"
                              THEN recluster_job(app, done)
                              ELSE [raised |-> FALSE, app |-> app]
                       left == IF job = "btn_run_all" \/ (job = "btn_run_cluster" /\ ~ran.raised)
                               THEN <<"busy_false">> ELSE <<>>
                   IN  /\ job = "btn_run_all" => ((done = 0) <=> (m < MinRows))
                       /\ job = "btn_run_cluster" => (done <= 3 /\ m = app.df /\ ~only_negative)
                       /\ job \notin {"btn_run_all", "btn_run_cluster"}
                             => (done = 0 /\ m = app.df /\ ~only_negative)
                       /\ app' = [ran.app EXCEPT
                                     !._threads[t].pc = "finished",
                                     !.after = @ \o left \o <<"set_running_false">>]
    /\ op' = "app"
    /\ UNCHANGED <<args, res, first, memo, rng, files>>

\* the main loop runs the oldest pending callback
AfterCallback ==
    /\ Session
    /\ app.after # <<>>
    /\ app' = LET a == [app EXCEPT !.after = Tail(@)]
              IN  IF Head(app.after) = "busy_false" THEN _busy(a, FALSE)
                  ELSE _set_running(a, Head(app.after) = "set_running_true")
    /\ op' = "app"
    /\ UNCHANGED <<args, res, first, memo, rng, files>>

NextApp ==
    \/ on_load_csv \/ on_run_all \/ on_run_cluster_only \/ on_export
    \/ on_plot_k \/ on_asin_compare \/ on_priority \/ on_report_offline
    \/ RunnerStarts \/ RunnerRuns \/ AfterCallback

SpecApp == Init /\ [][NextApp]_vars

\* one more encode call of a session on one cache directory; a file that
\* does not load is a call that computes
Encode ==
    /\ op \in {"init", "encode"}
    /\ (IF op = "init" THEN 0 ELSE res.calls) < MaxCalls
    /\ \E texts \in TextLists :
         \E r \in encode("model", texts, files) :
            /\ op' = "encode"
            /\ args' = [texts |-> texts]
            /\ res' = [c \in DOMAIN r \ {"files"} |-> r[c]]
                        @@ [calls |-> (IF op = "init" THEN 0 ELSE res.calls) + 1]
            /\ files' = r.files
    /\ UNCHANGED <<first, memo, rng, app>>

SpecEncode == Init /\ [][Encode]_vars

Next ==
    \/ NextScan \/ NextFit \/ NextMetrics
    \/ TopRepresentatives \/ ClusteringStability
    \/ NextRecommend \/ PipelineRecommend
    \/ ConfiguredScan \/ NextScores \/ BootstrapRun
    \/ NextApp \/ Encode

Spec == Init /\ [][Next]_vars

----------------------------------------------------------------------------
(* Claims about the K scan. *)

IsScan == op \in {"scan_k", "scan_k_agglomerative"}

\* the scan's contract: inclusive range, k_min >= 2
InContract == args.k_min >= 2 /\ args.k_min <= args.k_max

\* a scan called within its contract has returned
ScanReturned == IsScan /\ InContract /\ ~res.raised

\* the returned KScanResult has a mapping f whose key set is {k_min..k_max}
HasMapping(f) ==
    /\ f \in DOMAIN res.value
    /\ res.value[f].t = "dict"
    /\ DOMAIN res.value[f].v = args.k_min..args.k_max

\* the mapping f of the returned KScanResult stores v at key k
Stores(f, k, v) ==
    /\ f \in DOMAIN res.value
    /\ res.value[f].t = "dict"
    /\ k \in DOMAIN res.value[f].v
    /\ res.value[f].v[k] = v

\* C1: every scan that returns gives a KScanResult with four metric mappings
\* (inertia, silhouette, calinski-harabasz, davies-bouldin), each with exactly
\* the key set {k_min, ..., k_max}.  Stated for the calls within the scan's
\* contract, which are enough to refute it.
C1_FourMappingsOverScannedRange ==
    ScanReturned =>
        \A f \in {"k_to_inertia", "k_to_silhouette", "k_to_ch", "k_to_db"} : HasMapping(f)

\* float("inf"), the davies-bouldin sentinel of the data model
PosInf == [t |-> "inf", v |-> 0]

\* C2: whenever the fit at some K yields exactly one distinct label, the scan
\* stores silhouette = -1, calinski_harabasz = -1 and davies_bouldin = +inf
\* for that K, and invokes no metric calculator for it.  Stated for the calls
\* within the scan's contract.
C2_DegenerateFitStoresSentinels ==
    ScanReturned =>
        \A k \in DOMAIN res.nlabels :
            res.nlabels[k] = 1 =>
                /\ Stores("k_to_silhouette", k, Float(-1))
                /\ Stores("k_to_ch", k, Float(-1))
                /\ Stores("k_to_db", k, PosInf)
                /\ res.invoked[k] = {}

----------------------------------------------------------------------------
(* Claims about the Cluster Fitter. *)

IsRun == op \in {"run_clustering", "run_clustering_again"}

RunReturned == IsRun /\ ~res.raised

IsAgain == op \in {"run_clustering_again", "fit_kmeans_again"}

\* the centers a fit returned: fit_kmeans' second component, run_clustering's meta
CentersOf(r) == IF op = "fit_kmeans_again" THEN r.centers ELSE r.meta.centers

\* C3: two calls of run_clustering / fit_kmeans with identical embeddings,
\* method, params and seed return identical labels and identical centers (the
\* library being a function of its inputs and seed); when one raises, so does
\* the other.
C3_RefitIsIdentical ==
    IsAgain =>
        /\ first.raised = res.raised
        /\ ~res.raised =>
              /\ first.labels = res.labels
              /\ CentersOf(first) = CentersOf(res)

\* a KMeans fit with two or more clusters was repeated, the clock differing
C3_Witness ==
    /\ op = "run_clustering_again"
    /\ ~res.raised
    /\ res.meta.method = S_KMeans
    /\ NumLabels(res.labels) > 1
    /\ res.meta.runtime_seconds # first.meta.runtime_seconds

\* centers has an entry for cluster id c
HasCenter(c) == c \in DOMAIN res.meta.centers.v

\* C4: in every result of run_clustering, whatever params (a caller-supplied
\* noise_label included), every label in labels other than the result's noise
\* label has an entry in centers, and the noise label has none.
C4_CentersCoverNonNoiseLabels ==
    RunReturned =>
        /\ \A c \in Range(res.labels) : c # res.meta.noise_label => HasCenter(c)
        /\ ~HasCenter(res.meta.noise_label)

\* C28: in every result of run_clustering, for every method and every
\* params['noise_label'], n_clusters is the number of entries of centers,
\* and noise_count plus the number of rows whose label has an entry in
\* centers is N.
C28_CountsMatchCenters ==
    RunReturned =>
        /\ res.meta.n_clusters = Cardinality(DOMAIN res.meta.centers.v)
        /\ res.meta.noise_count
              + Cardinality({i \in DOMAIN res.labels : HasCenter(res.labels[i])})
              = Len(res.labels)

SupportedNames == {S_kmeans, S_agglomerative, S_dbscan}

\* the name is one of the three supported methods, in any case and padding
NamesSupported(method) == ~IsNone(method) /\ Lower(Strip(method.v)) \in SupportedNames

\* the call was rejected as a configuration error, nothing returned
Rejected ==
    /\ res.raised
    /\ res.error = "ValueError: Unsupported clustering method"
    /\ DOMAIN res \cap {"labels", "meta", "value"} = {}

\* C5 as claimed: a call with a method name that is none of the three
\* supported methods, an empty or missing name included, raises and returns
\* no labels and no metadata.
C5_UnsupportedOrMissingNameRejected ==
    (IsRun /\ ~NamesSupported(args.method)) =>
        res.raised /\ DOMAIN res \cap {"labels", "meta", "value"} = {}

MissingName(method) == IsNone(method) \/ method.v = <<>>

\* C5, amended: a name that is given, not empty and none of the three
\* supported methods is rejected with a configuration error and nothing is
\* returned; a missing or empty name is not rejected, it selects KMeans.
C5_UnsupportedNameRejected ==
    IsRun =>
        /\ (~MissingName(args.method) /\ ~NamesSupported(args.method)) => Rejected
        /\ MissingName(args.method) =>
              /\ ~Rejected
              /\ ~res.raised => res.meta.method = S_KMeans

C5_Witness ==
    /\ op = "run_clustering"
    /\ args.method = Str(S_spectral)
    /\ Rejected

\* DBSCAN labelled every row -1 in this call
AllNoiseFit ==
    \E m \in memo :
        /\ m.key.fn = "DBSCAN"
        /\ ~m.out.raised
        /\ \A i \in DOMAIN m.out.labels : m.out.labels[i] = -1

WardCall ==
    \/ op = "scan_k_agglomerative" /\ Lower(args.linkage) = S_ward
    \/ /\ op = "run_clustering"
       /\ MethodNorm(args.method) = S_agglomerative
       /\ Lower(Get(args.params, "linkage", S_ward)) = S_ward

\* C7: under ward linkage the metric handed to the clustering model, the
\* metric of every silhouette computation and the metric recorded in the
\* resolved params are euclidean, whatever metric the caller passed.
C7_WardForcesEuclidean ==
    WardCall =>
        /\ \A b \in res.built : b.metric = S_euclidean
        /\ op = "scan_k_agglomerative" => res.sil_metrics \subseteq {S_euclidean}
        /\ (op = "run_clustering" /\ ~res.raised) =>
              res.meta.method_params.metric = S_euclidean

\* a ward scan, called with cosine, built models and computed silhouettes
C7_Witness ==
    /\ op = "scan_k_agglomerative"
    /\ args.linkage = S_ward
    /\ args.metric = S_cosine
    /\ ~res.raised
    /\ res.built # {}
    /\ res.sil_metrics # {}

----------------------------------------------------------------------------
(* Claims about the validation metrics. *)

\* compute_cluster_metrics was called with a labels array
MetricsCalled == op = "compute_cluster_metrics" /\ ~IsNone(args.labels)

\* the rows whose label differs from noise_label, and their labels
NonNoiseRows == {i \in DOMAIN args.labels.v : args.labels.v[i] # args.noise_label}

NonNoiseLabels == {args.labels.v[i] : i \in NonNoiseRows}

Unavailable(name) == IsNone(res.value[name])

\* C8: with fewer than two distinct labels other than noise_label (all rows
\* noise included) compute_cluster_metrics returns the three metrics
\* unavailable, a note, the observed n_samples and n_clusters, computes
\* nothing and does not raise.
C8_TooFewClustersUnavailable ==
    (MetricsCalled /\ Cardinality(NonNoiseLabels) < 2) =>
        /\ ~res.raised
        /\ Unavailable("silhouette")
        /\ Unavailable("calinski_harabasz")
        /\ Unavailable("davies_bouldin")
        /\ "note" \in DOMAIN res.value
        /\ res.value.n_samples = Cardinality(NonNoiseRows)
        /\ res.value.n_clusters = Cardinality(NonNoiseLabels)
        /\ DOMAIN res.calls = {}

\* one cluster and some noise
C8_Witness ==
    /\ MetricsCalled
    /\ Cardinality(NonNoiseLabels) = 1
    /\ Cardinality(NonNoiseRows) < NRows
    /\ res.value.note = "insufficient clusters"

\* C9: whichever calculators fail, each calculator that ran without failing
\* has its value reported, each failing one is unavailable with its own
\* note, and the call returns normally.
C9_MetricFailuresIsolated ==
    (MetricsCalled /\ DOMAIN res.calls # {}) =>
        /\ ~res.raised
        /\ \A name \in DOMAIN res.calls :
              IF res.calls[name].raised
              THEN Unavailable(name) /\ NoteKey(name) \in DOMAIN res.value
              ELSE /\ res.value[name] = Float(res.calls[name].v)
                   /\ NoteKey(name) \notin DOMAIN res.value

\* silhouette and davies-bouldin failed, calinski-harabasz is reported
C9_Witness ==
    /\ MetricsCalled
    /\ DOMAIN res.calls = {"silhouette", "calinski_harabasz", "davies_bouldin"}
    /\ res.calls["silhouette"].raised
    /\ res.calls["davies_bouldin"].raised
    /\ ~res.calls["calinski_harabasz"].raised
    /\ res.value.calinski_harabasz.t = "float"

SampleSizeGiven == ~IsNone(args.sample_size) /\ args.sample_size.v > 0

CappedSamples ==
    IF SampleSizeGiven THEN Min(Cardinality(NonNoiseRows), args.sample_size.v)
    ELSE Cardinality(NonNoiseRows)

\* the rows evaluated are distinct rows of the filtered set, and the caller's
\* labels are as they were
EvaluatesNonNoiseRows ==
    /\ \A i, j \in DOMAIN res.rows : i # j => res.rows[i] # res.rows[j]
    /\ Range(res.rows) \subseteq NonNoiseRows
    /\ res.labels_after = args.labels

\* C10 as claimed: n_samples = min(non-noise rows, sample_size) when a
\* positive sample_size is given and the number of non-noise rows otherwise;
\* the evaluated rows are distinct non-noise rows; labels is unchanged.
C10_SamplesCappedAlways ==
    MetricsCalled =>
        /\ res.value.n_samples = CappedSamples
        /\ EvaluatesNonNoiseRows

\* C10, amended: that holds when two or more distinct non-noise labels remain
\* (and n_samples is then the number of rows evaluated); with fewer, nothing
\* is sampled or evaluated and n_samples is the number of non-noise rows,
\* whatever sample_size is.
C10_SamplesCappedWhenEvaluated ==
    MetricsCalled =>
        /\ Cardinality(NonNoiseLabels) >= 2 =>
              /\ res.value.n_samples = CappedSamples
              /\ Len(res.rows) = res.value.n_samples
        /\ Cardinality(NonNoiseLabels) < 2 =>
              /\ res.value.n_samples = Cardinality(NonNoiseRows)
              /\ res.rows = <<>>
        /\ EvaluatesNonNoiseRows

\* a sample smaller than the filtered set was drawn
C10_Witness ==
    /\ MetricsCalled
    /\ Cardinality(NonNoiseLabels) >= 2
    /\ Cardinality(NonNoiseRows) < NRows
    /\ SampleSizeGiven
    /\ res.value.n_samples = args.sample_size.v
    /\ res.value.n_samples < Cardinality(NonNoiseRows)

\* C29: a result of compute_cluster_metrics whose n_clusters is below 2
\* carries the 'insufficient clusters' note, has all three metrics
\* unavailable, and no calculator was invoked for it, also when a positive
\* sample_size leaves rows of one cluster in the evaluated sample.
C29_FewClustersNeverEvaluated ==
    (MetricsCalled /\ ~res.raised /\ "n_clusters" \in DOMAIN res.value
                   /\ res.value.n_clusters < 2) =>
        /\ "note" \in DOMAIN res.value
        /\ res.value.note = "insufficient clusters"
        /\ Unavailable("silhouette")
        /\ Unavailable("calinski_harabasz")
        /\ Unavailable("davies_bouldin")
        /\ DOMAIN res.calls = {}

----------------------------------------------------------------------------
(* Claims about the Representative Selector. *)

IsReps == op = "top_representatives"

RepsReturned == IsReps /\ ~res.raised

\* the mapping top_representatives returned
Reps == res.value.v

\* cluster c has a centroid of its own: an entry of the dict, or row c of
\* the dense array
HasCentroid(c) ==
    IF args.centers.t = "dict" THEN c \in DOMAIN args.centers.v
    ELSE c \in 0..(Len(args.centers.v) - 1)

CentroidOf(c) ==
    IF args.centers.t = "dict" THEN args.centers.v[c] ELSE args.centers.v[c + 1]

\* the cosine similarity of row i to the centroid of cluster c
Similarity(i, c) == cosine_similarity(args.emb[i], CentroidOf(c))

ClusterSize(c) == Cardinality(Members(args.labels, c))

\* C11: in the returned mapping every row listed under cluster id c is a
\* row labelled c, no row is listed twice in a list, and no row is listed
\* under two cluster ids.
C11_ListsHoldOwnMembersOnce ==
    RepsReturned =>
        \A c \in DOMAIN Reps :
            /\ \A j \in 1..Len(Reps[c]) :
                  /\ Reps[c][j] \in DOMAIN args.labels
                  /\ args.labels[Reps[c][j]] = c
            /\ \A j, k \in 1..Len(Reps[c]) : j # k => Reps[c][j] # Reps[c][k]
            /\ \A d \in DOMAIN Reps :
                  d # c => Range(Reps[c]) \cap Range(Reps[d]) = {}

\* two clusters with representatives, one of them with two rows or more
\* that are not the lowest-numbered rows of the matrix
C11_Witness ==
    /\ RepsReturned
    /\ \E c, d \in DOMAIN Reps :
          /\ c # d
          /\ Len(Reps[c]) >= 2
          /\ Len(Reps[d]) >= 1
          /\ 1 \notin Range(Reps[c])

\* C12: each returned list of a cluster with a centroid is in order of
\* non-increasing cosine similarity to that centroid, and no member of the
\* cluster left out of the list is more similar than the last row listed.
C12_ListsRankedBySimilarity ==
    RepsReturned =>
        \A c \in DOMAIN Reps :
            HasCentroid(c) =>
                /\ \A j \in 1..(Len(Reps[c]) - 1) :
                      Similarity(Reps[c][j], c) >= Similarity(Reps[c][j + 1], c)
                /\ Len(Reps[c]) > 0 =>
                      \A i \in Members(args.labels, c) \ Range(Reps[c]) :
                          Similarity(i, c) <= Similarity(Reps[c][Len(Reps[c])], c)

\* a list of two rows of strictly decreasing similarity, out of row order,
\* that leaves a less similar member out
C12_Witness ==
    /\ RepsReturned
    /\ \E c \in DOMAIN Reps :
          /\ HasCentroid(c)
          /\ Len(Reps[c]) = 2
          /\ Reps[c][1] > Reps[c][2]
          /\ Similarity(Reps[c][1], c) > Similarity(Reps[c][2], c)
          /\ \E i \in Members(args.labels, c) \ Range(Reps[c]) :
                Similarity(i, c) < Similarity(Reps[c][2], c)

\* C13: the list of a cluster with a centroid never has more than top_n
\* rows (none when top_n is zero or negative), and for top_n >= 0 it has
\* exactly min(top_n, cluster size) rows.
C13_LengthCappedByTopN ==
    RepsReturned =>
        \A c \in DOMAIN Reps :
            HasCentroid(c) =>
                /\ Len(Reps[c]) <= (IF args.top_n > 0 THEN args.top_n ELSE 0)
                /\ args.top_n >= 0 =>
                      Len(Reps[c]) = Min(args.top_n, ClusterSize(c))

\* C14: a call of top_representatives with a positive top_n raises
\* nothing, and a label that has no centroid (no key in the dict; not in 0..len-1 of the dense array, -1
\* included) has an empty list.
C14_NoCentroidGivesEmptyList ==
    (IsReps /\ args.top_n > 0) =>
        /\ ~res.raised
        /\ \A c \in DOMAIN Reps : ~HasCentroid(c) => Reps[c] = <<>>

----------------------------------------------------------------------------
(* Claims about the Stability Estimator. *)

IsStability == op = "clustering_stability"

\* the ARI fields of a report
AriFields(report) == <<report.ari_min.v, report.ari_mean.v, report.ari_max.v>>

\* C15: every report clustering_stability returns has
\* ari_min <= ari_mean <= ari_max, whatever the run count (0 and up) and the
\* pairwise scores.
C15_MeanBetweenMinAndMax ==
    (IsStability /\ ~res.raised) =>
        /\ res.value.ari_min.v <= res.value.ari_mean.v
        /\ res.value.ari_mean.v <= res.value.ari_max.v

\* C16: clustering_stability with runs = 1 (and a k that KMeans accepts)
\* raises nothing, and the ARI fields of its report are not numbers that a
\* report of two runs can also carry.
C16_OneRunReportIsTellable ==
    (IsStability /\ args.runs = 1 /\ args.k <= Len(args.emb)) =>
        /\ ~res.raised
        /\ AriFields(res.value) \notin
              {AriFields(r.value) : r \in clustering_stability(args.emb, args.k, 2)}

----------------------------------------------------------------------------
(* Claims about the K-Recommender. *)

IsRecommend == op = "recommend_k"

\* minimal-inertia and maximal-silhouette Ks of two maps
MinInertiaKs(k_to_inertia) ==
    {k \in DOMAIN k_to_inertia :
        \A j \in DOMAIN k_to_inertia : k_to_inertia[k] <= k_to_inertia[j]}

MaxSilhouetteKs(k_to_silhouette) ==
    {k \in DOMAIN k_to_silhouette :
        \A j \in DOMAIN k_to_silhouette : k_to_silhouette[j] <= k_to_silhouette[k]}

\* C17: given metric maps whose key sets differ, recommend_k raises
\* nothing and returns a best_k that is a key of every map supplied (every
\* map that is not empty).
C17_BestKInEveryMap ==
    (IsRecommend /\ \E i, j \in 1..4 : DOMAIN args.maps[i] # DOMAIN args.maps[j]) =>
        /\ ~res.raised
        /\ \A i \in 1..4 :
              args.maps[i] # EmptyMap => res.value.best_k \in DOMAIN args.maps[i]

\* C18: given an empty silhouette map, recommend_k raises nothing, whatever
\* the other maps hold, and returns a K of minimal inertia when there is
\* an inertia map.
C18_EmptySilhouetteFallsBackToInertia ==
    (IsRecommend /\ args.maps[2] = EmptyMap) =>
        /\ ~res.raised
        /\ args.maps[1] # EmptyMap => res.value.best_k \in MinInertiaKs(args.maps[1])

C20_PipelineRecommendationFollowsWeight ==
    (op = "pipeline_recommend" /\ InContract /\ "k_scan" \in DOMAIN res) =>
        /\ ~res.raised
        /\ args.weight = 10 =>
              res.k_best \in MaxSilhouetteKs([k \in DOMAIN res.k_scan.k_to_silhouette.v |->
                                                res.k_scan.k_to_silhouette.v[k].v])
        /\ args.weight = 0 =>
              res.k_best \in MinInertiaKs([k \in DOMAIN res.k_scan.k_to_inertia.v |->
                                             res.k_scan.k_to_inertia.v[k].v])

----------------------------------------------------------------------------
(* Claims about the configured K range. *)

\* C21: a K scan requested with an invalid range (k_min > k_max, or
\* k_min < 2) aborts with an error: it returns no KScanResult, neither an
\* empty one nor one that covers another range than the requested one.
C21_InvalidRangeAborts ==
    (/\ op = "configured_scan"
     /\ ~IsNone(args.k_min) /\ ~IsNone(args.k_max)
     /\ (args.k_min.v > args.k_max.v \/ args.k_min.v < 2)) =>
        res.raised

\* the votes of K in a returned call, and its composite score: normalised
\* silhouette + normalised CH + inverted normalised DB, 0 for a map
\* without the key
VotesFor(k) == Cardinality({i \in DOMAIN res.candidates : res.candidates[i][2] = k})

CompositeOf(k) ==
    Get(Normalized(args.maps[2], TRUE), k, 0)
        + Get(Normalized(args.maps[3], TRUE), k, 0)
        + Get(Normalized(args.maps[4], FALSE), k, 0)

\* the Ks with the most nominations
TopVoted ==
    {res.candidates[i][2] : i \in {j \in DOMAIN res.candidates :
        \A n \in DOMAIN res.candidates :
            VotesFor(res.candidates[n][2]) <= VotesFor(res.candidates[j][2])}}

\* the signal of name m nominates K from the keys of map d, as best(d) allows
SignalNominates(m, i, bestKs) ==
    IF args.maps[i] = EmptyMap
    THEN \A n \in DOMAIN res.candidates : res.candidates[n][1] # m
    ELSE /\ Cardinality({n \in DOMAIN res.candidates : res.candidates[n][1] = m}) = 1
         /\ \A n \in DOMAIN res.candidates :
               res.candidates[n][1] = m => res.candidates[n][2] \in bestKs

MinDaviesBouldinKs(d) == {k \in DOMAIN d : \A j \in DOMAIN d : d[k] <= d[j]}

\* C22: in a vote-based recommend_k every non-empty signal nominates one K
\* (a K of maximal silhouette, of maximal CH, of minimal DB, a key of the
\* inertia map) and an empty one none; the returned best_k is a K with the
\* most nominations, and among the Ks with the most nominations it has the
\* greatest composite score.
C22_BestKWinsVoteThenComposite ==
    (IsRecommend /\ ~res.raised /\ res.candidates # <<>>) =>
        /\ SignalNominates("silhouette_max", 2, MaxSilhouetteKs(args.maps[2]))
        /\ SignalNominates("calinski_harabasz_max", 3, MaxSilhouetteKs(args.maps[3]))
        /\ SignalNominates("davies_bouldin_min", 4, MinDaviesBouldinKs(args.maps[4]))
        /\ SignalNominates("elbow_curvature", 1, DOMAIN args.maps[1])
        /\ res.value.best_k \in TopVoted
        /\ \A k \in TopVoted : CompositeOf(k) <= CompositeOf(res.value.best_k)

\* two Ks share the most nominations, their composite scores differ, and
\* the one returned is not the first nominee
C22_Witness ==
    /\ IsRecommend /\ ~res.raised /\ res.candidates # <<>>
    /\ Cardinality(TopVoted) >= 2
    /\ \E k \in TopVoted : CompositeOf(k) < CompositeOf(res.value.best_k)
    /\ res.value.best_k # res.candidates[1][2]
    /\ Len(res.candidates) >= 3

\* the finite scores of the map given to _normalize_scores
FiniteScores == {args.scores[k] : k \in DOMAIN args.scores} \ {Infinity}

\* C23: _normalize_scores returns, for every key of the map, a value in
\* [0, 1]; a key of non-finite score gets 0 in every case, also when all
\* finite scores are equal; when all scores are finite and equal every key
\* gets 0.5; otherwise the keys of the finite minimum and maximum get 0
\* and 1 (1 and 0 when lower is better).
C23_NormalizedScores ==
    op = "_normalize_scores" =>
        /\ ~res.raised
        /\ DOMAIN res.value = DOMAIN args.scores
        /\ \A k \in DOMAIN args.scores :
              /\ res.value[k] >= 0 /\ res.value[k] <= NormScale
              /\ args.scores[k] = Infinity => res.value[k] = 0
              /\ (Infinity \notin Range(args.scores) /\ Cardinality(FiniteScores) = 1) =>
                    res.value[k] = NormScale \div 2
              /\ (Cardinality(FiniteScores) >= 2
                    /\ \A v \in FiniteScores : args.scores[k] <= v) =>
                    res.value[k] = (IF args.higher_better THEN 0 ELSE NormScale)
              /\ (Cardinality(FiniteScores) >= 2
                    /\ \A v \in FiniteScores : v <= args.scores[k]
                    /\ args.scores[k] # Infinity) =>
                    res.value[k] = (IF args.higher_better THEN NormScale ELSE 0)

\* the curvature at K, an inner key of the inertia map, is at least the
\* curvature at J: the absolute second differences of log-inertia (inertia
\* clipped at one unit) compare as the ratios hi / lo of a * c and b * b
CurvatureAtLeast(K, J) ==
    LET ks == SortedKeys(args.k_to_inertia)
        pos(k) == CHOOSE i \in DOMAIN ks : ks[i] = k
        w(i) == IF args.k_to_inertia[ks[i]] < 1 THEN 1 ELSE args.k_to_inertia[ks[i]]
        ac(k) == w(pos(k) - 1) * w(pos(k) + 1)
        bb(k) == w(pos(k)) * w(pos(k))
        hi(k) == IF ac(k) >= bb(k) THEN ac(k) ELSE bb(k)
        lo(k) == IF ac(k) >= bb(k) THEN bb(k) ELSE ac(k)
    IN  hi(K) * lo(J) >= hi(J) * lo(K)

\* the keys of the inertia map but the smallest and the largest
InnerKs ==
    {k \in DOMAIN args.k_to_inertia :
        /\ \E j \in DOMAIN args.k_to_inertia : j < k
        /\ \E j \in DOMAIN args.k_to_inertia : j > k}

\* C24: _recommend_by_elbow returns the smallest K of a map of fewer than
\* 3 keys; of a map of 3 keys or more it returns an inner K of maximal
\* curvature, the smallest one when several Ks have the maximal curvature.
C24_ElbowIsFirstMaxCurvature ==
    op = "_recommend_by_elbow" =>
        /\ ~res.raised
        /\ Cardinality(DOMAIN args.k_to_inertia) < 3 =>
              /\ res.value \in DOMAIN args.k_to_inertia
              /\ \A k \in DOMAIN args.k_to_inertia : res.value <= k
        /\ Cardinality(DOMAIN args.k_to_inertia) >= 3 =>
              /\ res.value \in InnerKs
              /\ \A k \in InnerKs : CurvatureAtLeast(res.value, k)
              /\ \A k \in InnerKs : k < res.value => ~CurvatureAtLeast(k, res.value)

\* a map of 4 keys whose elbow is the second inner K, of strictly greater
\* curvature than the first, with a zero inertia that the clip raises
C24_Witness ==
    /\ op = "_recommend_by_elbow"
    /\ Cardinality(DOMAIN args.k_to_inertia) = 4
    /\ \E k \in InnerKs : k < res.value /\ ~CurvatureAtLeast(k, res.value)
    /\ 0 \in Range(args.k_to_inertia)

\* C25: a bootstrap run ends with a label vector of length N, every label
\* in 0..K-1 (none left at -1); a drawn position carries the label of its
\* resampled copy, the same for all its copies; a position never drawn
\* carries the index of a centroid of greatest cosine similarity.
C25_RunLabelsEveryRow ==
    (op = "bootstrap_run" /\ ~res.raised) =>
        /\ DOMAIN res.lab_full = DOMAIN args.emb
        /\ \A p \in DOMAIN res.lab_full : res.lab_full[p] \in 0..(args.k - 1)
        /\ \A j \in DOMAIN res.idx : res.lab_full[res.idx[j]] = res.lab_bs[j]
        /\ \A p \in DOMAIN res.lab_full :
              p \notin Range(res.idx) =>
                  \A c \in 0..(args.k - 1) :
                      cosine_similarity(args.emb[p], res.centers[c + 1])
                          <= cosine_similarity(args.emb[p],
                                               res.centers[res.lab_full[p] + 1])

\* a run that drew one row twice and left a row out, which went to a
\* centroid other than the first, of strictly greater similarity
C25_Witness ==
    /\ op = "bootstrap_run" /\ ~res.raised
    /\ \E i, j \in DOMAIN res.idx : i # j /\ res.idx[i] = res.idx[j]
    /\ \E p \in DOMAIN res.lab_full :
          /\ p \notin Range(res.idx)
          /\ res.lab_full[p] > 0
          /\ cosine_similarity(args.emb[p], res.centers[1])
                < cosine_similarity(args.emb[p], res.centers[res.lab_full[p] + 1])

----------------------------------------------------------------------------
(* The application window. *)

Alive == {t \in DOMAIN app._threads : app._threads[t].pc # "finished"}

\* C26: at most one background job runs at any time: no worker thread is
\* started while one started before it has not finished.
C26_OneWorkerAtATime ==
    op = "app" => Cardinality(Alive) <= 1

\* C27: whenever no job is running, emb (if set) and labels (if set) have
\* as many rows as df_work.
C27_AnalysisStateConsistent ==
    (op = "app" /\ Alive = {} /\ app.after = <<>>) =>
        /\ app.emb # 0 => app.emb = app.df_work
        /\ app.labels # 0 => app.labels = app.df_work

----------------------------------------------------------------------------
(* The embedder's cache. *)

\* C30: encode with a cache_path returns, after any earlier encode calls on
\* that directory, the matrix of exactly the texts it was given under the
\* same model; a cache hit never returns the embeddings of another list.
C30_CacheHitIsOwnTexts ==
    (op = "encode" /\ ~res.raised) => res.value = ModelEncode("model", args.texts)

====
